---- MODULE Spec2Model ----
(***************************************************************************)
(* Model of VEX/priv/guest_riscv64_toIR.c: the riscv64 guest instruction   *)
(* decoder (getInsn, sx_to_64, the quadrant dispatch of                    *)
(* disInstr_RISCV64_WRK, the C.LUI rule of dis_RISCV64_compressed_01 and   *)
(* the top-level disInstr_RISCV64).                                        *)
(*                                                                         *)
(* UInt and ULong values are bit vectors (functions from bit position to   *)
(* 0/1), so that shifts, masks and the 2^64 wrap-around of the C code are  *)
(* computed bit by bit.                                                    *)
(***************************************************************************)
EXTENDS Integers, Sequences, FiniteSets, TLC

VARIABLES
  pc,             \* position inside the current disInstr_RISCV64 call
  guest_code,     \* the bytes at &guest_code[delta], indices 0..3
  guest_IP,       \* Addr guest_IP (64 bits)
  guest_arch,     \* VexArch guest_arch
  sigill_diag,    \* Bool sigill_diag
  vex_traceflags, \* TRUE iff vex_traceflags & VEX_TRACE_FE
  dres,           \* DisResult dres
  irsb,           \* the statement list of IRSB* irsb
  insn,           \* UInt insn of disInstr_RISCV64_WRK
  ok,             \* Bool ok
  fault,          \* the vassert that failed, "none" if none did
  out,            \* what the current call printed (vex_printf), in order
  ncalls,         \* number of disInstr_RISCV64 calls started
  irsb_entry,     \* history: Len(irsb) when the current call started
  irsb_wrk,       \* history: Len(irsb) when disInstr_RISCV64_WRK returned
  gi_p, gi_r,     \* getInsn applied on its own: argument and result
  sx_x, sx_n, sx_r \* sx_to_64 applied on its own: arguments and result

vars == <<pc, guest_code, guest_IP, guest_arch, sigill_diag, vex_traceflags,
          dres, irsb, insn, ok, fault, out, ncalls, irsb_entry, irsb_wrk,
          gi_p, gi_r, sx_x, sx_n, sx_r>>

decoderVars == <<pc, guest_code, guest_IP, guest_arch, sigill_diag,
                 vex_traceflags, dres, irsb, insn, ok, fault, out, ncalls,
                 irsb_entry, irsb_wrk>>

(***************************************************************************)
(* Bounds.                                                                 *)
(***************************************************************************)
\* number of instructions the block builder hands to disInstr_RISCV64
MaxCalls == 1
\* sx_to_64 is applied to every value of every width up to this one
MaxExhaustiveWidth == 5

(***************************************************************************)
(* Machine integers.                                                       *)
(***************************************************************************)
\* UInt holding the small number n (n < 2^31)
U32(n) == [i \in 0..31 |-> IF i < 31 THEN (n \div (2^i)) % 2 ELSE 0]

\* ULong holding the small number n (n < 2^31)
U64(n) == [i \in 0..63 |-> IF i < 31 THEN (n \div (2^i)) % 2 ELSE 0]

\* UInt w << k
Shl32(w, k) == [i \in 0..31 |-> IF i >= k THEN w[i - k] ELSE 0]

\* UInt w >> k
Shr32(w, k) == [i \in 0..31 |-> IF i + k <= 31 THEN w[i + k] ELSE 0]

\* UInt a | b
Or32(a, b) == [i \in 0..31 |-> IF a[i] = 1 THEN 1 ELSE b[i]]

\* UInt a & b
And32(a, b) == [i \in 0..31 |-> IF a[i] = 1 THEN b[i] ELSE 0]

\* (UInt)((1ULL << k) - 1ULL)
Mask32(k) == [i \in 0..31 |-> IF i < k THEN 1 ELSE 0]

\* the conversion UInt -> ULong of a function argument
ZExt64(w) == [i \in 0..63 |-> IF i <= 31 THEN w[i] ELSE 0]

\* ULong x << k
Shl64(x, k) == [i \in 0..63 |-> IF i >= k THEN x[i - k] ELSE 0]

\* Long r >> k (arithmetic: the sign bit r[63] is shifted in)
Sar64(r, k) == [i \in 0..63 |-> IF i + k <= 63 THEN r[i + k] ELSE r[63]]

RECURSIVE Carry64(_, _, _)
\* the carry into bit i of a + b
Carry64(a, b, i) ==
  IF i = 0 THEN 0 ELSE (a[i - 1] + b[i - 1] + Carry64(a, b, i - 1)) \div 2

\* ULong a + b, modulo 2^64
Add64(a, b) == [i \in 0..63 |-> (a[i] + b[i] + Carry64(a, b, i)) % 2]

(***************************************************************************)
(* Helper bits and pieces for deconstructing the insn stream.              *)
(***************************************************************************)
\* Bool is_compressed = (p[0] & 0x3) != 0x3
is_compressed(p) == (p[0] % 4) # 3

\* getInsn without the short read of a compressed instruction
getInsnReads_always4(p) == <<3, 2, 1, 0>>

\* the indices of p that getInsn reads, in the order it reads them
getInsnReads(p) == IF ~is_compressed(p) THEN <<3, 2, 1, 0>> ELSE <<1, 0>>

RECURSIVE getInsnAcc(_, _, _)
\* w = (w << 8) | p[idx[k]], for each of the remaining reads
getInsnAcc(p, idx, w) ==
  IF idx = <<>> THEN w
  ELSE getInsnAcc(p, Tail(idx), Or32(Shl32(w, 8), U32(p[Head(idx)])))

getInsn(p) == getInsnAcc(p, getInsnReads(p), U32(0))

\* the result of a vassert-guarded function: a value, or the failed vassert
Returned(v) == [vassert |-> FALSE, val |-> v]
Vassert64 == [vassert |-> TRUE, val |-> U64(0)]

\* sx_to_64 with the right shift done on the unsigned value
sx_to_64_logical(x, n) ==
  IF ~(n > 1 /\ n < 64) THEN Vassert64
  ELSE Returned([i \in 0..63 |->
                   IF i + (64 - n) <= 63 THEN Shl64(x, 64 - n)[i + (64 - n)] ELSE 0])

sx_to_64(x, n) ==
  IF ~(n > 1 /\ n < 64) THEN Vassert64
  ELSE Returned(Sar64(Shl64(x, 64 - n), 64 - n))

BITS2(b1, b0) == U32(b1 * 2 + b0)
BITS3(b2, b1, b0) == U32(b2 * 4 + b1 * 2 + b0)

X00 == BITS2(0, 0)
X01 == BITS2(0, 1)
X10 == BITS2(1, 0)
X11 == BITS2(1, 1)

\* Produce _uint[_bMax:_bMin]
SLICE_UInt(u, bMax, bMin) == And32(Shr32(u, bMin), Mask32(bMax - bMin + 1))

(***************************************************************************)
(* Helpers for constructing IR, guest state offsets, integer registers.    *)
(***************************************************************************)
\* IRExpr_Const(IRConst_U64(i)); its type is Ity_I64
mkU64(i) == [tag |-> "Const", ty |-> "Ity_I64", con |-> i]

typeOfIRExpr(e) == e.ty

IRStmt_Put(off, e) == [tag |-> "Put", offset |-> off, data |-> e]

\* addStmtToIRSB: the statement list is append-only
stmt(sb, st) == Append(sb, st)

\* offsetof(VexGuestRISCV64State, guest_x<n>)
OFFB_X(n) == [field |-> "guest_x", idx |-> n]
\* offsetof(VexGuestRISCV64State, guest_pc)
OFFB_PC == [field |-> "guest_pc", idx |-> 0]
\* the default branch of offsetIReg64: vassert(0)
OFFB_vassert == [field |-> "vassert", idx |-> 0]

offsetIReg64(iregNo) ==
  IF \E n \in 0..31 : iregNo = U32(n)
    THEN OFFB_X(CHOOSE n \in 0..31 : iregNo = U32(n))
    ELSE OFFB_vassert

\* the vasserts on the way of putIReg64(irsb, iregNo, e): "none" if all hold
putIReg64Fault(iregNo, e) ==
  IF typeOfIRExpr(e) # "Ity_I64" THEN "putIReg64_type"
  ELSE IF offsetIReg64(iregNo) = OFFB_vassert THEN "offsetIReg64_default"
  ELSE "none"

putIReg64(sb, iregNo, e) == stmt(sb, IRStmt_Put(offsetIReg64(iregNo), e))

\* Obtain ABI name of a register: vassert(iregNo < 32)
nameIReg64Fault(iregNo) ==
  IF \E n \in 0..31 : iregNo = U32(n) THEN "none" ELSE "nameIReg64"

(***************************************************************************)
(* Disassemble a single instruction.                                       *)
(***************************************************************************)
\* what a quadrant decoder leaves behind: its return value, *dres, the
\* statement list, the lines printed and the vassert that failed, if any
DecodeResult(r, d, sb, o, f) ==
  [ok |-> r, dres |-> d, irsb |-> sb, out |-> o, fault |-> f]

dis_RISCV64_compressed_00(d, sb, w, diag, trace) ==
  DecodeResult(FALSE, d, sb, IF diag THEN <<"compressed_00">> ELSE <<>>, "none")

\* UInt rd = INSN(11, 7)
CLUI_rd(w) == SLICE_UInt(w, 11, 7)
\* nzimm with bit 12 of the instruction placed one position too low
CLUI_nzimm_bit16(w) ==
  Or32(Shl32(SLICE_UInt(w, 12, 12), 16), Shl32(SLICE_UInt(w, 6, 2), 12))

\* UInt nzimm = INSN(12, 12) << 17 | INSN(6, 2) << 12
CLUI_nzimm(w) ==
  Or32(Shl32(SLICE_UInt(w, 12, 12), 17), Shl32(SLICE_UInt(w, 6, 2), 12))
\* the rule without the rd == 2 exclusion
CLUI_accepts_rd2(w) ==
  /\ SLICE_UInt(w, 15, 13) = U32(3)
  /\ SLICE_UInt(w, 11, 7) # U32(0)
  /\ Or32(Shl32(SLICE_UInt(w, 12, 12), 17), Shl32(SLICE_UInt(w, 6, 2), 12)) # U32(0)

\* INSN(15, 13) == BITS3(0, 1, 1), and not the "Invalid C.LUI" case
CLUI_accepts(w) ==
  /\ SLICE_UInt(w, 15, 13) = BITS3(0, 1, 1)
  /\ CLUI_rd(w) \notin {U32(0), U32(2)}
  /\ CLUI_nzimm(w) # U32(0)

\* the rule emitting its IR as soon as the bit pattern matches, before the
\* side-constraint is validated
dis_RISCV64_compressed_01_eager(d, sb, w, diag, trace) ==
  IF SLICE_UInt(w, 15, 13) = U32(3)
    THEN LET rd == SLICE_UInt(w, 11, 7)
             nz == Or32(Shl32(SLICE_UInt(w, 12, 12), 17),
                        Shl32(SLICE_UInt(w, 6, 2), 12))
             sb2 == stmt(sb, IRStmt_Put(OFFB_X(CHOOSE n \in 0..31 : rd = U32(n)),
                                        mkU64(Sar64(Shl64(ZExt64(nz), 46), 46))))
         IN  IF rd \in {U32(0), U32(2)} \/ nz = U32(0)
               THEN DecodeResult(FALSE, d, sb2,
                                 IF diag THEN <<"compressed_01">> ELSE <<>>, "none")
               ELSE DecodeResult(TRUE, d, sb2,
                                 IF trace THEN <<"lui">> ELSE <<>>, "none")
    ELSE DecodeResult(FALSE, d, sb,
                      IF diag THEN <<"compressed_01">> ELSE <<>>, "none")

dis_RISCV64_compressed_01(d, sb, w, diag, trace) ==
  IF CLUI_accepts(w)
    THEN LET rd == CLUI_rd(w)
             sx == sx_to_64(ZExt64(CLUI_nzimm(w)), 18)
             e  == mkU64(sx.val)
         IN  IF sx.vassert
               THEN DecodeResult(FALSE, d, sb, <<>>, "sx_to_64")
             ELSE IF putIReg64Fault(rd, e) # "none"
               THEN DecodeResult(FALSE, d, sb, <<>>, putIReg64Fault(rd, e))
             ELSE IF trace /\ nameIReg64Fault(rd) # "none"
               THEN DecodeResult(FALSE, d, putIReg64(sb, rd, e), <<>>,
                                 nameIReg64Fault(rd))
             ELSE DecodeResult(TRUE, d, putIReg64(sb, rd, e),
                               IF trace THEN <<"lui">> ELSE <<>>, "none")
    ELSE DecodeResult(FALSE, d, sb,
                      IF diag THEN <<"compressed_01">> ELSE <<>>, "none")

\* a quadrant decoder that sets the length of a compressed instruction and
\* then fails
dis_RISCV64_compressed_10_dirty(d, sb, w, diag, trace) ==
  [ok |-> FALSE, dres |-> [d EXCEPT !.len = 2], irsb |-> sb,
   out |-> IF diag THEN <<"compressed_10">> ELSE <<>>, fault |-> "none"]

dis_RISCV64_compressed_10(d, sb, w, diag, trace) ==
  DecodeResult(FALSE, d, sb, IF diag THEN <<"compressed_10">> ELSE <<>>, "none")

\* case X11: the TODO leaves ok at False
dis_RISCV64_X11(d, sb, w, diag, trace) ==
  DecodeResult(FALSE, d, sb, <<>>, "none")

\* vex_bzero(&dres, sizeof(dres))
DisResultZero ==
  [whatNext |-> "zero", len |-> 0, jk_StopHere |-> "zero", hint |-> "zero"]

\* "Set result defaults" of disInstr_RISCV64_WRK
DisResultDefaults ==
  [whatNext |-> "Dis_Continue", len |-> 4, jk_StopHere |-> "Ijk_INVALID",
   hint |-> "Dis_HintNone"]

\* switch (INSN(1, 0)): the case label taken
SwitchCase(w) ==
  CASE SLICE_UInt(w, 1, 0) = X00 -> "compressed_00"
    [] SLICE_UInt(w, 1, 0) = X01 -> "compressed_01"
    [] SLICE_UInt(w, 1, 0) = X10 -> "compressed_10"
    [] SLICE_UInt(w, 1, 0) = X11 -> "X11"
    [] OTHER -> "switch_default"

\* vassert(0 == (guest_pc_curr_instr & 3ULL))
PcAligned(a) == a[0] = 0 /\ a[1] = 0

(***************************************************************************)
(* Inputs of a call.                                                       *)
(***************************************************************************)
Window(b0, b1, b2, b3) == [i \in 0..3 |-> <<b0, b1, b2, b3>>[i + 1]]

\* instruction windows, low byte first
GuestWindows ==
  { Window(5, 101, 0, 0),        \* 0x6505 c.lui a0, 0x1
    Window(125, 117, 255, 255),  \* 0x757d c.lui a0, 0x3f (negative), then ff ff
    Window(253, 96, 19, 0),      \* 0x60fd c.lui ra, 0x1f
    Window(129, 127, 5, 101),    \* 0x7f81 c.lui t6, 0x20
    Window(5, 96, 0, 0),         \* 0x6005 C.LUI pattern, rd = 0
    Window(5, 97, 255, 255),     \* 0x6105 C.LUI pattern, rd = 2 (c.addi16sp)
    Window(1, 101, 0, 0),        \* 0x6501 C.LUI pattern, nzimm = 0
    Window(5, 5, 0, 0),          \* 0x0505 c.addi
    Window(1, 160, 255, 255),    \* 0xa001 c.j
    Window(0, 0, 0, 0),          \* 0x0000 illegal, quadrant 00
    Window(8, 65, 5, 101),       \* 0x4108 c.lw
    Window(130, 128, 0, 0),      \* 0x8082 c.jr ra
    Window(19, 0, 0, 0),         \* 0x00000013 nop
    Window(183, 5, 5, 0),        \* 0x000505b7 lui a1, 0x50
    Window(255, 255, 255, 255) } \* 0xffffffff

GuestIPs ==
  { U64(0), U64(4096), U64(2),
    [i \in 0..63 |-> IF i \in 2..31 THEN 1 ELSE 0],  \* 0x00000000fffffffc
    [i \in 0..63 |-> IF i >= 2 THEN 1 ELSE 0] }      \* 0xfffffffffffffffc

GuestArchs == {"VexArchRISCV64", "VexArchARM64"}

(***************************************************************************)
(* The state after construction: no call made yet, an empty superblock.    *)
(***************************************************************************)
PureIdle ==
  /\ gi_p = Window(0, 0, 0, 0)
  /\ gi_r = [done |-> FALSE, w |-> U32(0), reads |-> {}]
  /\ sx_x = U64(0)
  /\ sx_n = 0
  /\ sx_r = [done |-> FALSE, vassert |-> FALSE, val |-> U64(0)]

DecoderIdle ==
  /\ pc = "idle"
  /\ guest_code = Window(0, 0, 0, 0)
  /\ guest_IP = U64(0)
  /\ guest_arch = "VexArchRISCV64"
  /\ sigill_diag = FALSE
  /\ vex_traceflags = FALSE
  /\ dres = DisResultZero
  /\ irsb = <<>>
  /\ insn = U32(0)
  /\ ok = FALSE
  /\ fault = "none"
  /\ out = <<>>
  /\ ncalls = 0
  /\ irsb_entry = 0
  /\ irsb_wrk = 0

Init == DecoderIdle /\ PureIdle

(***************************************************************************)
(* disInstr_RISCV64, entry: the block builder calls with one instruction.  *)
(***************************************************************************)
disInstr_RISCV64_entry ==
  /\ pc \in {"idle", "done"}
  /\ ncalls < MaxCalls
  /\ \E code \in GuestWindows, ip \in GuestIPs, arch \in GuestArchs,
        diag \in BOOLEAN, trace \in BOOLEAN :
       /\ guest_code' = code
       /\ guest_IP' = ip
       /\ guest_arch' = arch
       /\ sigill_diag' = diag
       /\ vex_traceflags' = trace
       /\ fault' = IF arch = "VexArchRISCV64" THEN "none" ELSE "guest_arch"
       /\ pc' = IF arch = "VexArchRISCV64" THEN "WRK" ELSE "abort"
  /\ dres' = DisResultZero
  /\ insn' = U32(0)
  /\ ok' = FALSE
  /\ out' = <<>>
  /\ ncalls' = ncalls + 1
  /\ irsb_entry' = Len(irsb)
  /\ irsb_wrk' = Len(irsb)
  /\ UNCHANGED <<irsb, gi_p, gi_r, sx_x, sx_n, sx_r>>

(***************************************************************************)
(* disInstr_RISCV64_WRK up to the switch: result defaults, the read of the *)
(* instruction word, the alignment vassert, the choice of the case label.  *)
(***************************************************************************)
disInstr_RISCV64_WRK_begin ==
  /\ pc = "WRK"
  /\ dres' = DisResultDefaults
  /\ insn' = getInsn(guest_code)
  /\ out' = IF vex_traceflags THEN out \o <<"pc">> ELSE out
  /\ ok' = FALSE
  /\ fault' = IF ~PcAligned(guest_IP) THEN "pc_align"
              ELSE IF SwitchCase(insn') = "switch_default" THEN "switch_default"
              ELSE "none"
  /\ pc' = IF fault' # "none" THEN "abort" ELSE SwitchCase(insn')
  /\ UNCHANGED <<guest_code, guest_IP, guest_arch, sigill_diag, vex_traceflags,
                 irsb, ncalls, irsb_entry, irsb_wrk,
                 gi_p, gi_r, sx_x, sx_n, sx_r>>

\* ok = dis_...(dres, irsb, insn, sigill_diag); break;
CaseTaken(r) ==
  /\ ok' = r.ok
  /\ dres' = r.dres
  /\ irsb' = r.irsb
  /\ out' = out \o r.out
  /\ fault' = r.fault
  /\ pc' = IF r.fault # "none" THEN "abort" ELSE "WRK_check"
  /\ UNCHANGED <<guest_code, guest_IP, guest_arch, sigill_diag, vex_traceflags,
                 insn, ncalls, irsb_entry, irsb_wrk,
                 gi_p, gi_r, sx_x, sx_n, sx_r>>

case_X00 ==
  /\ pc = "compressed_00"
  /\ CaseTaken(dis_RISCV64_compressed_00(dres, irsb, insn, sigill_diag,
                                         vex_traceflags))

case_X01 ==
  /\ pc = "compressed_01"
  /\ CaseTaken(dis_RISCV64_compressed_01(dres, irsb, insn, sigill_diag,
                                         vex_traceflags))

case_X10 ==
  /\ pc = "compressed_10"
  /\ CaseTaken(dis_RISCV64_compressed_10(dres, irsb, insn, sigill_diag,
                                         vex_traceflags))

case_X11 ==
  /\ pc = "X11"
  /\ CaseTaken(dis_RISCV64_X11(dres, irsb, insn, sigill_diag, vex_traceflags))

\* "make sure dres didn't get changed": the three vasserts after the switch
FailureInvariant(d) ==
  /\ d.whatNext = "Dis_Continue"
  /\ d.len = 4
  /\ d.jk_StopHere = "Ijk_INVALID"

disInstr_RISCV64_WRK_return ==
  /\ pc = "WRK_check"
  /\ fault' = IF ~ok /\ ~FailureInvariant(dres) THEN "failure_invariant"
              ELSE "none"
  /\ pc' = IF fault' # "none" THEN "abort" ELSE "WRK_returned"
  /\ irsb_wrk' = Len(irsb)
  /\ UNCHANGED <<guest_code, guest_IP, guest_arch, sigill_diag, vex_traceflags,
                 dres, irsb, insn, ok, out, ncalls, irsb_entry,
                 gi_p, gi_r, sx_x, sx_n, sx_r>>

(***************************************************************************)
(* disInstr_RISCV64 after the worker returned.                             *)
(***************************************************************************)
\* "All decode successes end up here": the fault, or the statements to add
SuccessFault(d) ==
  IF d.len \notin {4, 20} THEN "len"
  ELSE IF d.whatNext \notin {"Dis_Continue", "Dis_StopHere"} THEN "whatNext"
  ELSE "none"

\* the driver writing the pc without advancing it
SuccessStmts_noAdvance(d, ip) ==
  IF d.whatNext = "Dis_Continue"
    THEN <<IRStmt_Put(OFFB_PC, mkU64(ip))>>
    ELSE <<>>

SuccessStmts(d, ip) ==
  IF d.whatNext = "Dis_Continue"
    THEN <<IRStmt_Put(OFFB_PC, mkU64(Add64(ip, U64(d.len))))>>
    ELSE <<>>

disInstr_RISCV64_success ==
  /\ pc = "WRK_returned"
  /\ ok
  /\ fault' = SuccessFault(dres)
  /\ pc' = IF fault' # "none" THEN "abort" ELSE "done"
  /\ irsb' = IF fault' # "none" THEN irsb ELSE irsb \o SuccessStmts(dres, guest_IP)
  /\ out' = IF fault' = "none" /\ vex_traceflags THEN out \o <<"nl">> ELSE out
  /\ UNCHANGED <<guest_code, guest_IP, guest_arch, sigill_diag, vex_traceflags,
                 dres, insn, ok, ncalls, irsb_entry, irsb_wrk,
                 gi_p, gi_r, sx_x, sx_n, sx_r>>

\* the failure path without dres.len = 0
FailureDres_keepLen(d) ==
  [d EXCEPT !.whatNext = "Dis_StopHere", !.jk_StopHere = "Ijk_NoDecode"]

\* "All decode failures end up here"
FailureDres(d) ==
  [d EXCEPT !.len = 0, !.whatNext = "Dis_StopHere", !.jk_StopHere = "Ijk_NoDecode"]

disInstr_RISCV64_failure ==
  /\ pc = "WRK_returned"
  /\ ~ok
  /\ out' = IF sigill_diag
              THEN out \o <<<<"unhandled", getInsn(guest_code)>>>>
              ELSE out
  /\ irsb' = stmt(irsb, IRStmt_Put(OFFB_PC, mkU64(guest_IP)))
  /\ dres' = FailureDres(dres)
  /\ pc' = "done"
  /\ UNCHANGED <<guest_code, guest_IP, guest_arch, sigill_diag, vex_traceflags,
                 insn, ok, fault, ncalls, irsb_entry, irsb_wrk,
                 gi_p, gi_r, sx_x, sx_n, sx_r>>

Next ==
  \/ disInstr_RISCV64_entry
  \/ disInstr_RISCV64_WRK_begin
  \/ case_X00
  \/ case_X01
  \/ case_X10
  \/ case_X11
  \/ disInstr_RISCV64_WRK_return
  \/ disInstr_RISCV64_success
  \/ disInstr_RISCV64_failure

Spec == Init /\ [][Next]_vars

(***************************************************************************)
(* getInsn on its own, over a wider set of byte windows.                   *)
(***************************************************************************)
GetInsnWindows ==
  { Window(b0, b1, b2, b3) :
      b0 \in 0..255, b1 \in {0, 101, 255}, b2 \in {0, 255}, b3 \in {0, 128, 255} }

InitGetInsn ==
  /\ DecoderIdle
  /\ gi_p \in GetInsnWindows
  /\ gi_r = [done |-> FALSE, w |-> U32(0), reads |-> {}]
  /\ sx_x = U64(0)
  /\ sx_n = 0
  /\ sx_r = [done |-> FALSE, vassert |-> FALSE, val |-> U64(0)]

getInsn_call ==
  /\ ~gi_r.done
  /\ gi_r' = [done |-> TRUE, w |-> getInsn(gi_p),
              reads |-> {getInsnReads(gi_p)[k] : k \in 1..Len(getInsnReads(gi_p))}]
  /\ UNCHANGED <<decoderVars, gi_p, sx_x, sx_n, sx_r>>

NextGetInsn == getInsn_call

SpecGetInsn == InitGetInsn /\ [][NextGetInsn]_vars

(***************************************************************************)
(* sx_to_64 on its own: every width a UInt argument can make the vassert   *)
(* see from both sides, and for each width the extreme values.             *)
(***************************************************************************)
SxWidths == 0..66

\* the ULong whose bits lo..hi are set
Ones64(lo, hi) == [i \in 0..63 |-> IF i >= lo /\ i <= hi THEN 1 ELSE 0]

SxValues(n) ==
  IF n \in 2..63
    THEN { U64(0), U64(1), Ones64(0, n - 1), Ones64(n - 1, n - 1),
           Ones64(0, n - 2), Ones64(n - 2, n - 2),
           [i \in 0..63 |-> IF i < n /\ i % 2 = 0 THEN 1 ELSE 0],
           [i \in 0..63 |-> IF i < n /\ i % 2 = 1 THEN 1 ELSE 0] }
         \cup (IF n <= MaxExhaustiveWidth THEN {U64(v) : v \in 0..(2^n - 1)} ELSE {})
    ELSE { U64(0), U64(1), Ones64(0, 63) }

InitSx ==
  /\ DecoderIdle
  /\ gi_p = Window(0, 0, 0, 0)
  /\ gi_r = [done |-> FALSE, w |-> U32(0), reads |-> {}]
  /\ sx_n \in SxWidths
  /\ sx_x \in SxValues(sx_n)
  /\ sx_r = [done |-> FALSE, vassert |-> FALSE, val |-> U64(0)]

sx_to_64_call ==
  /\ ~sx_r.done
  /\ sx_r' = [done |-> TRUE, vassert |-> sx_to_64(sx_x, sx_n).vassert,
              val |-> sx_to_64(sx_x, sx_n).val]
  /\ UNCHANGED <<decoderVars, gi_p, gi_r, sx_x, sx_n>>

NextSx == sx_to_64_call

SpecSx == InitSx /\ [][NextSx]_vars

(***************************************************************************)
(* The properties.  The fields of the instruction are taken here straight  *)
(* from the bytes of the window, by integer arithmetic.                    *)
(***************************************************************************)
Quadrant(p) == p[0] % 4
Funct3(p) == p[1] \div 32
RdOf(p) == (p[1] % 16) * 2 + (p[0] \div 128)
Bit12Of(p) == (p[1] \div 16) % 2
Imm5Of(p) == (p[0] \div 4) % 32
NzimmOf(p) == Bit12Of(p) * (2^17) + Imm5Of(p) * (2^12)

\* the C.LUI bit pattern: bits[1:0] = 01, bits[15:13] = 011
CLUIPattern(p) == Quadrant(p) = 1 /\ Funct3(p) = 3
\* the side-constraint of the rule
CLUIValid(p) == RdOf(p) \notin {0, 2} /\ NzimmOf(p) # 0
CLUIWord(p) == CLUIPattern(p) /\ CLUIValid(p)

\* nzimm sign-extended from bit 17 to 64 bits
SignExtNzimm(p) ==
  [i \in 0..63 |-> IF i < 12 THEN 0
                   ELSE IF i < 17 THEN (Imm5Of(p) \div (2^(i - 12))) % 2
                   ELSE Bit12Of(p)]

\* the 16-bit limb k of a 64-bit value, as a number
RECURSIVE LimbSum(_, _, _)
LimbSum(x, k, j) ==
  IF j = 16 THEN 0 ELSE x[16 * k + j] * (2^j) + LimbSum(x, k, j + 1)
Limb(x, k) == LimbSum(x, k, 0)

RECURSIVE LimbCarry(_, _, _)
\* the carry into limb k of x + n, for a small n
LimbCarry(x, n, k) ==
  IF k = 0 THEN n ELSE (Limb(x, k - 1) + LimbCarry(x, n, k - 1)) \div 65536

\* y = x + n modulo 2^64
IsSum64(y, x, n) ==
  \A k \in 0..3 : Limb(y, k) = (Limb(x, k) + LimbCarry(x, n, k)) % 65536

\* the statements the current call has appended since the worker returned
DriverStmts == SubSeq(irsb, irsb_wrk + 1, Len(irsb))
\* the statements the current call has appended
CallStmts == SubSeq(irsb, irsb_entry + 1, Len(irsb))

IsPcWrite(st) == st.tag = "Put" /\ st.offset = OFFB_PC

\* C1: when the worker reported failure, disInstr_RISCV64 returns len = 0,
\* whatNext = Dis_StopHere, jk_StopHere = Ijk_NoDecode, hint = Dis_HintNone,
\* and the last statement of the superblock writes guest_IP to the pc.
C1_FailureOutcome ==
  (pc = "done" /\ ~ok) =>
     /\ dres = [whatNext |-> "Dis_StopHere", len |-> 0,
                jk_StopHere |-> "Ijk_NoDecode", hint |-> "Dis_HintNone"]
     /\ Len(irsb) > irsb_wrk
     /\ irsb[Len(irsb)].tag = "Put"
     /\ irsb[Len(irsb)].offset = OFFB_PC
     /\ irsb[Len(irsb)].data = [tag |-> "Const", ty |-> "Ity_I64", con |-> guest_IP]

C1_Witness ==
  /\ pc = "done" /\ ~ok /\ sigill_diag
  /\ guest_IP = Ones64(2, 63)
  /\ Quadrant(guest_code) = 1

\* C2: when the C.LUI rule accepts a word, the decode reports success with
\* consumedLength = 2 and continuation = continue.
C2_CLUILength2 ==
  (pc \in {"WRK_returned", "done"} /\ CLUIWord(guest_code)) =>
     /\ ok
     /\ dres.len = 2
     /\ dres.whatNext = "Dis_Continue"

\* C3: after a successful decode the returned len is 4 or 20 (the driver's
\* vassert holds); with whatNext = Dis_Continue the driver appends, after the
\* rule's IR, exactly one statement, a pc write of guest_IP + len; with
\* whatNext = Dis_StopHere it appends nothing.
C3_SuccessPcUpdate ==
  /\ fault \notin {"len", "whatNext"}
  /\ (pc = "done" /\ ok) =>
       /\ dres.len \in {4, 20}
       /\ dres.whatNext \in {"Dis_Continue", "Dis_StopHere"}
       /\ dres.whatNext = "Dis_Continue" =>
            /\ Len(DriverStmts) = 1
            /\ IsPcWrite(DriverStmts[1])
            /\ DriverStmts[1].data.tag = "Const"
            /\ DriverStmts[1].data.ty = "Ity_I64"
            /\ IsSum64(DriverStmts[1].data.con, guest_IP, dres.len)
            /\ \A k \in 1..(Len(CallStmts) - 1) : ~IsPcWrite(CallStmts[k])
       /\ dres.whatNext = "Dis_StopHere" => DriverStmts = <<>>

C3_Witness ==
  /\ pc = "done" /\ ok /\ dres.whatNext = "Dis_Continue"
  /\ guest_IP = Ones64(2, 63)
  /\ Len(CallStmts) = 2

\* C4: a decode call on a malformed or unimplemented encoding, whatever the
\* guest pc, never fails the pc alignment vassert, the failure-invariant
\* vasserts or the default branch of the switch, and ends not decoded.
C4_NoFatalOnGuestInput ==
  (guest_arch = "VexArchRISCV64" /\ ~CLUIWord(guest_code)) =>
     /\ fault \notin {"pc_align", "failure_invariant", "switch_default"}
     /\ pc = "done" => (~ok /\ dres.jk_StopHere = "Ijk_NoDecode")

\* C5: when dis_RISCV64_compressed_01 runs on a word with the C.LUI pattern
\* that fails the side-constraint (rd = 0, rd = 2 or nzimm = 0), it returns
\* False and leaves every DisResult field and the statement list as they were.
C5_RejectionAtomic ==
  [][ (pc = "compressed_01" /\ CLUIPattern(guest_code) /\ ~CLUIValid(guest_code))
        => /\ dres' = dres
           /\ irsb' = irsb
           /\ ok' = FALSE
           /\ fault' = "none"
           /\ pc' = "WRK_check" ]_vars

C5_Witness ==
  /\ pc = "WRK_check" /\ ~ok /\ sigill_diag
  /\ CLUIPattern(guest_code) /\ ~CLUIValid(guest_code)
  /\ RdOf(guest_code) = 2
  /\ out # <<>>

\* C6: when the C.LUI rule accepts a word it appends exactly one statement,
\* a write to the storage of register rd = bits[11:7] of the 64-bit constant
\* that is nzimm sign-extended from bit 17; no other register is written.
C6_CLUIEmits ==
  (pc \in {"WRK_check", "WRK_returned"} /\ CLUIWord(guest_code)) =>
     /\ ok
     /\ CallStmts = << [tag |-> "Put",
                        offset |-> [field |-> "guest_x", idx |-> RdOf(guest_code)],
                        data |-> [tag |-> "Const", ty |-> "Ity_I64",
                                  con |-> SignExtNzimm(guest_code)]] >>

C6_Witness ==
  /\ pc = "WRK_check" /\ ok
  /\ Bit12Of(guest_code) = 1
  /\ RdOf(guest_code) = 10
  /\ Len(CallStmts) = 1

\* the bit j of byte b
ByteBit(b, j) == (b \div (2^j)) % 2

\* C7: getInsn returns bytes[0] | bytes[1] << 8 (upper 16 bits zero, whatever
\* bytes[2] and bytes[3] are) when bytes[0] & 3 is not 3, else the
\* little-endian assembly of bytes[0..3]; it reads no index outside 0..3.
C7_GetInsn ==
  gi_r.done =>
     /\ gi_r.reads \subseteq 0..3
     /\ IF gi_p[0] % 4 # 3
          THEN /\ gi_r.w = U32(gi_p[0] + 256 * gi_p[1])
               /\ \A i \in 16..31 : gi_r.w[i] = 0
               /\ gi_r.reads \cap {2, 3} = {}
               /\ \A q \in GetInsnWindows :
                     (q[0] = gi_p[0] /\ q[1] = gi_p[1]) => getInsn(q) = gi_r.w
          ELSE \A k \in 0..3 : \A j \in 0..7 :
                     gi_r.w[8 * k + j] = ByteBit(gi_p[k], j)

C7_Witness ==
  /\ gi_r.done
  /\ gi_p[0] % 4 = 1
  /\ gi_p[2] = 255 /\ gi_p[3] = 128

\* C8: for a width n in [2,63] and a value below 2^n, the low n bits of
\* sx_to_64(value, n) are those of value and bits [63:n] all equal bit n-1
\* of value; a width outside (1,64) fails the vassert, nothing is returned.
C8_SignExtension ==
  sx_r.done =>
     IF sx_n \in 2..63
       THEN /\ ~sx_r.vassert
            /\ \A i \in 0..(sx_n - 1) : sx_r.val[i] = sx_x[i]
            /\ \A i \in sx_n..63 : sx_r.val[i] = sx_x[sx_n - 1]
       ELSE sx_r.vassert

C8_Witness ==
  /\ sx_r.done /\ ~sx_r.vassert
  /\ sx_n = 63
  /\ sx_x[62] = 1
  /\ sx_r.val[63] = 1

\* the case label of each quadrant
QuadrantLabel == <<"compressed_00", "compressed_01", "compressed_10", "X11">>

\* C9: disInstr_RISCV64_WRK takes exactly the case of bits[1:0], never the
\* default branch, and returns True iff bits[1:0] = 01, bits[15:13] = 011,
\* rd is neither 0 nor 2 and nzimm is nonzero.
C9_DecodedIffCLUI ==
  /\ fault # "switch_default"
  /\ pc # "switch_default"
  /\ pc \in {"compressed_00", "compressed_01", "compressed_10", "X11"} =>
        pc = QuadrantLabel[Quadrant(guest_code) + 1]
  /\ pc \in {"WRK_check", "WRK_returned", "done"} => (ok <=> CLUIWord(guest_code))

C9_Witness ==
  /\ pc = "WRK_returned" /\ ok
  /\ RdOf(guest_code) = 31

\* C10: whenever disInstr_RISCV64_WRK returns False, the DisResult equals the
\* defaults (Dis_Continue, 4, Ijk_INVALID, Dis_HintNone): the three vasserts
\* after the switch hold.
C10_FailureLeavesDefaults ==
  /\ fault # "failure_invariant"
  /\ (pc \in {"WRK_check", "WRK_returned"} /\ ~ok) =>
        dres = [whatNext |-> "Dis_Continue", len |-> 4,
                jk_StopHere |-> "Ijk_INVALID", hint |-> "Dis_HintNone"]

C10_Witness ==
  /\ pc = "WRK_returned" /\ ~ok
  /\ Quadrant(guest_code) = 3

====
